---- MODULE Spec2Model ----
(***************************************************************************)
(* Document processing pipeline of Monitor_Credit_Card_Payments:          *)
(* main.py (orchestration and HTTP handlers), pdf_text_extractor.py       *)
(* (deterministic extractor), vision_ocr.py (vision OCR extractor),       *)
(* transaction_extractor.py (LLM extraction engine), models.py (tables).  *)
(*                                                                         *)
(* Texts are sequences of tokens <<kind, n>>: a word of document n's      *)
(* file is <<"word", n>>, the OCR page delimiter "--- Page n ---" is      *)
(* <<"page", n>>, and the string "Error: ..." that                        *)
(* get_llm_response_over_images returns for a failed API call is          *)
(* <<"Error", 0>>.  Whitespace inside these texts is not represented;     *)
(* the values handed to the field parsers carry theirs.  Python's None    *)
(* is NoneText / NoneInt / NoneStr.                                        *)
(*                                                                         *)
(* uvicorn runs one event loop (run.py): the async handlers contain no    *)
(* await around their blocking calls, so one handler runs at a time,      *)
(* while BackgroundTasks and threading.Thread targets run beside it.      *)
(*                                                                         *)
(* Spec is the pipeline under the requests of one user; SpecLive adds     *)
(* the scheduling of the background runs; SpecProcessed is the pipeline   *)
(* after a first processed upload; SpecAccess the transaction endpoints   *)
(* under several users; SpecExtractors one call of one function.          *)
(***************************************************************************)
EXTENDS Integers, Sequences, FiniteSets, TLC

\* ---------------------------------------------------------------- bounds
\* MaxDocs: documents ever uploaded; PdfPages: pages of an uploaded PDF;
\* MaxItems: elements of the transactions array the LLM returns in a
\* pipeline run; MaxElements: the same for a call of the engine on its own;
\* MaxTriggers: HTTP requests (upload, manual triggers, delete) in one
\* behaviour.
\* MaxUsers: the signed-up users of the ownership specification.
\* MaxWords: words in a text handed to the similarity computation.
MaxDocs == 2
PdfPages == 2
MaxItems == 1
MaxElements == 2
MaxTriggers == 2
MaxUsers == 2
MaxWords == 2

DocIds == 1..MaxDocs
Users == 1..MaxUsers

\* ------------------------------------------------------- python values
NoneText == << <<"None", 0>> >>
NoneInt == -1
NoneStr == "None"

Truthy(t) == t # NoneText /\ t # <<>>

ApiErrorText == << <<"Error", 0>> >>

RECURSIVE WordCount(_)
WordCount(t) ==
    IF t = <<>> THEN 0
    ELSE (CASE Head(t)[1] = "page" -> 4
            [] Head(t)[1] = "Error" -> 2
            [] OTHER -> 1) + WordCount(Tail(t))

\* ------------------------------------------- pdf_text_extractor.py
\* What the external tools do in one call: "missing" is pdftotext -v failing
\* in check_poppler_installation, the others are outcomes of the extraction.
ToolOutcomes == {"ok", "missing", "timeout", "nonzero", "unexpected"}

NoPopplerResult ==
    [raised |-> FALSE, success |-> FALSE, error |-> "pending", text |-> <<>>,
     pages |-> 0, word_count |-> 0]

PopplerFailure(reason) ==
    [raised |-> FALSE, success |-> FALSE, error |-> reason, text |-> <<>>,
     pages |-> 0, word_count |-> 0]

PopplerRaise(exc) ==
    [raised |-> TRUE, success |-> FALSE, error |-> exc, text |-> <<>>,
     pages |-> 0, word_count |-> 0]

extract_text_from_pdf(exists, installed, tool, text, pages) ==
    IF ~exists THEN PopplerRaise("PDF file not found")
    ELSE IF ~installed THEN PopplerFailure("Poppler utilities not installed")
    ELSE CASE tool = "ok" ->
                [raised |-> FALSE, success |-> TRUE, error |-> "", text |-> text,
                 pages |-> pages, word_count |-> WordCount(text)]
           [] tool = "timeout" -> PopplerFailure("Timeout during text extraction")
           [] tool = "nonzero" -> PopplerFailure("Poppler error")
           [] OTHER -> PopplerFailure("unexpected")

\* Temporary files the call leaves behind: NamedTemporaryFile(delete=False)
\* creates one once the tool check passed, and os.unlink runs on the success
\* path only ("unexpected" is an error raised while reading the output).
TempFilesLeft(exists, installed, tool) ==
    IF ~exists \/ ~installed THEN 0
    ELSE IF tool = "ok" THEN 0 ELSE 1

\* extract_text_by_pages: what pdftotext does for one page.
PageToolOutcomes == {"ok", "nonzero", "timeout", "unexpected"}

PagePlaceholder(p) == << <<"ErrorPage", p>> >>

NoPageTexts == [p \in {} |-> <<>>]

PagesFailure(reason, left) ==
    [raised |-> FALSE, success |-> FALSE, error |-> reason, pages |-> NoPageTexts,
     total_pages |-> 0, temp_left |-> left]

NoPagesResult == PagesFailure("pending", 0)

\* The loop over range(1, page_count + 1): each pass creates a temporary
\* file, and unlinks it after a zero or nonzero exit; TimeoutExpired and an
\* error while reading leave the loop through the outer except.
RECURSIVE PagesLoop(_, _, _, _, _)
PagesLoop(k, n, outcomes, texts, acc) ==
    IF k > n
    THEN [raised |-> FALSE, success |-> TRUE, error |-> "", pages |-> acc,
          total_pages |-> n, temp_left |-> 0]
    ELSE CASE outcomes[k] = "ok" ->
                PagesLoop(k + 1, n, outcomes, texts,
                          [p \in 1..k |-> IF p = k THEN texts[k] ELSE acc[p]])
           [] outcomes[k] = "nonzero" ->
                PagesLoop(k + 1, n, outcomes, texts,
                          [p \in 1..k |-> IF p = k THEN PagePlaceholder(k) ELSE acc[p]])
           [] outcomes[k] = "timeout" -> PagesFailure("TimeoutExpired", 1)
           [] OTHER -> PagesFailure("unexpected", 1)

extract_text_by_pages(exists, installed, page_count, outcomes, texts) ==
    IF ~exists
    THEN [PagesFailure("PDF file not found", 0) EXCEPT !.raised = TRUE]
    ELSE IF ~installed THEN PagesFailure("Poppler utilities not installed", 0)
    ELSE PagesLoop(1, page_count, outcomes, texts, NoPageTexts)

\* ----------------------------------------------------- vision_ocr.py
ApiOutcomes == {"ok", "error"}

get_llm_response_over_images(outcome, text) ==
    IF outcome = "ok" THEN text ELSE ApiErrorText

process_image_with_ocr(api_key, outcome, text) ==
    IF ~api_key
    THEN [success |-> FALSE, error |-> "No API key configured", text |-> <<>>,
          confidence |-> 0, called |-> FALSE]
    ELSE [success |-> TRUE, error |-> "",
          text |-> get_llm_response_over_images(outcome, text),
          confidence |-> 90, called |-> TRUE]

PageEntry(r) ==
    [text |-> r.text, success |-> r.success, confidence |-> r.confidence,
     error |-> r.error]

\* The loop over the rasterized pages, in ascending page order: acc holds
\* ocr_results, total_text and the number of vision-API calls made so far.
RECURSIVE OcrLoop(_, _, _, _, _, _)
OcrLoop(k, n, api_key, outcomes, texts, acc) ==
    IF k > n THEN acc
    ELSE LET r == process_image_with_ocr(api_key, outcomes[k], texts[k])
         IN  OcrLoop(k + 1, n, api_key, outcomes, texts,
                     [pages |-> [p \in 1..k |-> IF p = k THEN PageEntry(r)
                                                ELSE acc.pages[p]],
                      total_text |-> IF r.success
                                     THEN acc.total_text \o << <<"page", k>> >> \o r.text
                                     ELSE acc.total_text,
                      calls |-> acc.calls + (IF r.called THEN 1 ELSE 0)])

NoPages == [p \in {} |-> [text |-> <<>>, success |-> FALSE, confidence |-> 0,
                          error |-> ""]]

OcrFailure(reason) ==
    [success |-> FALSE, error |-> reason, pages |-> NoPages, total_pages |-> 0,
     complete_text |-> <<>>, calls |-> 0]

NoOcrResult == OcrFailure("pending")

\* images: the number of page images extract_images_from_pdf returned (0
\* when rasterization raised and it returned []).
process_pdf_with_ocr(exists, images, api_key, outcomes, texts) ==
    IF ~exists THEN OcrFailure("PDF file not found")
    ELSE IF images = 0 THEN OcrFailure("No images extracted from PDF")
    ELSE LET acc == OcrLoop(1, images, api_key, outcomes, texts,
                            [pages |-> NoPages, total_text |-> <<>>, calls |-> 0])
         IN  [success |-> TRUE, error |-> "", pages |-> acc.pages,
              total_pages |-> images, complete_text |-> acc.total_text,
              calls |-> acc.calls]

\* ---------------------------------------------- transaction_extractor.py
\* What the chat-completion call does as the pipeline sees it: it answers with
\* a well-formed body, it raises, or it answers with text that is not JSON.
LlmOutcomes == {"ok", "api_error", "bad_json"}
ItemKinds == {"dict", "nondict"}

\* A response body is its raw text and what json.loads makes of it: json is
\* "garbage" (JSONDecodeError), "nonobject" (a list, number, string or null)
\* or "object"; an object's "transactions" key is absent, null, a number or
\* an array of items; an item is a JSON object (dict) carrying line item
\* number data, or some other JSON value.
RawTexts == {"text1", "text2"}
JsonShapes == {"garbage", "nonobject", "object"}
TransactionsShapes == {"absent", "null", "number", "array"}

Body(raw, json, shape, items, has_confidence) ==
    [raw |-> raw, json |-> json, transactions |-> shape, items |-> items,
     has_confidence |-> has_confidence]

\* One record per element of the model's transactions array; an element that
\* is not a JSON object makes transaction.get raise and is recorded as failed
\* under its enumerate index.
ProcessOne(item, i, statement_id, raw_response) ==
    IF item.kind = "dict"
    THEN [statement_id |-> statement_id, description |-> <<"desc", item.data>>,
          extraction_source |-> "llm", llm_raw_response |-> raw_response,
          processing_completed |-> TRUE, processing_error |-> NoneStr]
    ELSE [statement_id |-> statement_id, description |-> <<"failed", i - 1>>,
          extraction_source |-> NoneStr, llm_raw_response |-> raw_response,
          processing_completed |-> FALSE, processing_error |-> "AttributeError"]

\* A variant whose loop stops at the first element that raises.
process_transactions_Aborting(items, statement_id, raw_response) ==
    LET bad == {i \in 1..Len(items) : items[i].kind # "dict"}
        n == IF bad = {} THEN Len(items)
             ELSE (CHOOSE i \in bad : \A j \in bad : i <= j) - 1
    IN  [i \in 1..n |-> ProcessOne(items[i], i, statement_id, raw_response)]

process_transactions(items, statement_id, raw_response) ==
    [i \in 1..Len(items) |-> ProcessOne(items[i], i, statement_id, raw_response)]

ExtractionFailure(reason, raw_response) ==
    [success |-> FALSE, error |-> reason, transactions |-> <<>>,
     raw_response |-> raw_response, confidence_score |-> 0]

NoExtraction == ExtractionFailure("pending", NoneStr)

\* confidence_score in percent: extracted_data.get("confidence", 0.8).
ConfidenceOf(body) == IF body.has_confidence THEN 90 ELSE 80

\* A variant that keeps no raw text when the body is not JSON.
extract_transactions_RawDropped(client, api_ok, body, statement_id) ==
    IF client /\ api_ok /\ body.json = "object"
                /\ body.transactions \in {"absent", "array"}
    THEN [success |-> TRUE, error |-> "",
          transactions |-> process_transactions(
              IF body.transactions = "absent" THEN <<>> ELSE body.items,
              statement_id, body.raw),
          raw_response |-> body.raw,
          confidence_score |-> ConfidenceOf(body)]
    ELSE ExtractionFailure("failed", NoneStr)

extract_transactions(client, api_ok, body, statement_id) ==
    IF ~client THEN ExtractionFailure("Groq API client not initialized", NoneStr)
    ELSE IF ~api_ok THEN ExtractionFailure("api error", NoneStr)
    ELSE IF body.json = "garbage"
    THEN ExtractionFailure("Invalid JSON response from LLM", body.raw)
    ELSE IF body.json = "nonobject"
    THEN ExtractionFailure("AttributeError", NoneStr)
    ELSE IF body.transactions \in {"null", "number"}
    THEN ExtractionFailure("TypeError", NoneStr)
    ELSE [success |-> TRUE, error |-> "",
          transactions |-> process_transactions(
              IF body.transactions = "absent" THEN <<>> ELSE body.items,
              statement_id, body.raw),
          raw_response |-> body.raw,
          confidence_score |-> ConfidenceOf(body)]

\* _create_extraction_prompt(statement_text): a text is its sequence of
\* characters, the prompt the sentence before it, the embedded text and the
\* sentence after it.
max_chars == 10000
TruncationMarker == "\n\n[TEXT TRUNCATED]"
PromptHead == "Please extract all transaction details from the following financial statement text:\n\n"
PromptTail == "\n\nExtract each transaction with all available details and return as JSON following the specified format."

\* A variant that truncates from max_chars characters on.
create_extraction_prompt_AtLimit(statement_text) ==
    LET embedded == IF Len(statement_text) >= max_chars
                    THEN SubSeq(statement_text, 1, max_chars) \o <<TruncationMarker>>
                    ELSE statement_text
    IN  <<PromptHead>> \o embedded \o <<PromptTail>>

create_extraction_prompt(statement_text) ==
    LET embedded == IF Len(statement_text) > max_chars
                    THEN SubSeq(statement_text, 1, max_chars) \o <<TruncationMarker>>
                    ELSE statement_text
    IN  <<PromptHead>> \o embedded \o <<PromptTail>>

\* ------------------------------- transaction_extractor.py, field parsers
\* A JSON value handed to a parser: None, a number, or a string.  A string
\* that reads as a date is given by its form and its numeric fields in the
\* order written: "dash" is f1-f2-f3, "slash" f1/f2/f3, "dash_time" is
\* f1-f2-f3 hh:00:00; any other string has form "text", "" has form "empty".
DateString(form, f1, f2, f3, hh) ==
    [type |-> "str", form |-> form, f1 |-> f1, f2 |-> f2, f3 |-> f3, hh |-> hh]
NoneValue == [type |-> "none", form |-> "none", f1 |-> 0, f2 |-> 0, f3 |-> 0, hh |-> 0]
IntValue(n) == [type |-> "int", form |-> "none", f1 |-> n, f2 |-> 0, f3 |-> 0, hh |-> 0]

\* bool(value)
TruthyValue(v) ==
    CASE v.type = "none" -> FALSE
      [] v.type = "int" -> v.f1 # 0
      [] OTHER -> v.form # "empty"

\* datetime(year, month, day, hour) and the None that stands for no date.
DateTime(year, month, day, hour) ==
    [year |-> year, month |-> month, day |-> day, hour |-> hour]
NoneDate == DateTime(0, 0, 0, 0)
ValueError == DateTime(-1, 0, 0, 0)

DaysIn(y, m) ==
    LET IsLeap == y % 4 = 0 /\ (y % 100 # 0 \/ y % 400 = 0)
    IN  IF m \in {4, 6, 9, 11} THEN 30
        ELSE IF m = 2 THEN (IF IsLeap THEN 29 ELSE 28)
        ELSE 31

\* What %Y, %m, %d accept: four digits, a month, a day of that month.
ValidDate(y, m, d) ==
    /\ y \in 1000..9999
    /\ m \in 1..12
    /\ d \in 1..DaysIn(y, m)

\* datetime.strptime(date_str, fmt): the datetime, or ValueError.
strptime(v, fmt) ==
    CASE fmt = "%Y-%m-%d" ->
            IF v.form = "dash" /\ ValidDate(v.f1, v.f2, v.f3)
            THEN DateTime(v.f1, v.f2, v.f3, 0) ELSE ValueError
      [] fmt = "%m/%d/%Y" ->
            IF v.form = "slash" /\ ValidDate(v.f3, v.f1, v.f2)
            THEN DateTime(v.f3, v.f1, v.f2, 0) ELSE ValueError
      [] fmt = "%d/%m/%Y" ->
            IF v.form = "slash" /\ ValidDate(v.f3, v.f2, v.f1)
            THEN DateTime(v.f3, v.f2, v.f1, 0) ELSE ValueError
      [] fmt = "%Y-%m-%d %H:%M:%S" ->
            IF v.form = "dash_time" /\ ValidDate(v.f1, v.f2, v.f3) /\ v.hh \in 0..23
            THEN DateTime(v.f1, v.f2, v.f3, v.hh) ELSE ValueError

\* A variant that tries the day-first slash format before the month-first.
Formats_EuFirst == <<"%Y-%m-%d", "%d/%m/%Y", "%m/%d/%Y", "%Y-%m-%d %H:%M:%S">>

Formats == <<"%Y-%m-%d", "%m/%d/%Y", "%d/%m/%Y", "%Y-%m-%d %H:%M:%S">>

RECURSIVE TryFormats(_, _)
TryFormats(v, k) ==
    IF k > Len(Formats) THEN NoneDate
    ELSE IF strptime(v, Formats[k]) # ValueError THEN strptime(v, Formats[k])
    ELSE TryFormats(v, k + 1)

parse_date(date_str) ==
    IF ~TruthyValue(date_str) THEN NoneDate
    ELSE IF date_str.type = "str" THEN TryFormats(date_str, 1)
    ELSE NoneDate

\* An amount value is None, a str or another JSON value, with chars the
\* characters of str(value).  A Decimal is given as Python does, by sign,
\* digits and exponent, or as one of its special values.
NoDecimal(kind) == [kind |-> kind, negative |-> FALSE, digits |-> <<>>, exponent |-> 0]
NoneAmount == NoDecimal("None")
InvalidOperation == NoDecimal("InvalidOperation")

\* Decimal(chars): [sign] digits [. digits], or [sign] NaN, or [sign] Infinity.
Decimal(chars) ==
    LET Digits == {"0", "1", "2", "3", "4", "5", "6", "7", "8", "9"}
        signed == chars # <<>> /\ chars[1] \in {"-", "+"}
        negative == signed /\ chars[1] = "-"
        body == IF signed THEN Tail(chars) ELSE chars
        dots == {i \in DOMAIN body : body[i] = "."}
        digits == SelectSeq(body, LAMBDA c : c \in Digits)
        numeral == /\ \A i \in DOMAIN body : body[i] \in Digits \cup {"."}
                   /\ Cardinality(dots) <= 1
                   /\ digits # <<>>
    IN  IF numeral
        THEN [kind |-> "finite", negative |-> negative, digits |-> digits,
              exponent |-> IF dots = {} THEN 0
                           ELSE (CHOOSE i \in dots : TRUE) - Len(body)]
        ELSE IF body = <<"N", "a", "N">>
        THEN [NoDecimal("NaN") EXCEPT !.negative = negative]
        ELSE IF body = <<"I", "n", "f", "i", "n", "i", "t", "y">>
        THEN [NoDecimal("Infinity") EXCEPT !.negative = negative]
        ELSE InvalidOperation

parse_amount(amount) ==
    IF amount.type = "none" THEN NoneAmount
    ELSE LET cleaned == IF amount.type = "str"
                        THEN SelectSeq(amount.chars,
                                       LAMBDA c : c \notin {"$", ",", " "})
                        ELSE amount.chars
         IN  IF Decimal(cleaned) = InvalidOperation THEN NoneAmount
             ELSE Decimal(cleaned)

\* str.lower() on the words of the model's vocabulary.
Lower(w) ==
    CASE w = "Total" -> "total" [] w = "DUE" -> "due"
      [] w \in {"Gas", "GAS"} -> "gas" [] w = "Fee" -> "fee"
      [] w = "Debit" -> "debit" [] w = "XYZ" -> "xyz" [] OTHER -> w

\* A category or type value is None, a number or a str; word is str(value)
\* without the whitespace around it, pad whether there is such whitespace.
WordValue(type, pad, word) == [type |-> type, pad |-> pad, word |-> word]
NoneWord == WordValue("none", FALSE, "")

\* bool(value); str(value).lower().strip() is Lower(value.word).
TruthyWord(v) ==
    CASE v.type = "none" -> FALSE
      [] v.type = "int" -> v.word # "0"
      [] OTHER -> v.pad \/ v.word # ""

type_mapping ==
    [k \in {"debit", "credit", "withdrawal", "deposit", "purchase", "payment",
            "transfer", "fee"} |-> k]

normalize_transaction_type(trans_type) ==
    IF ~TruthyWord(trans_type) THEN NoneWord
    ELSE LET t == Lower(trans_type.word)
         IN  WordValue("str", FALSE,
                       IF t \in DOMAIN type_mapping THEN type_mapping[t] ELSE t)

category_mapping ==
    ("grocery" :> "groceries") @@ ("groceries" :> "groceries")
    @@ ("food" :> "food") @@ ("restaurant" :> "food") @@ ("dining" :> "food")
    @@ ("gas" :> "fuel") @@ ("fuel" :> "fuel")
    @@ ("shopping" :> "shopping") @@ ("retail" :> "shopping")
    @@ ("entertainment" :> "entertainment")
    @@ ("medical" :> "healthcare") @@ ("healthcare" :> "healthcare")
    @@ ("utility" :> "utilities") @@ ("utilities" :> "utilities")
    @@ ("transfer" :> "transfer") @@ ("payment" :> "payment")
    @@ ("fee" :> "fees") @@ ("fees" :> "fees")

normalize_category(category) ==
    IF ~TruthyWord(category) THEN NoneWord
    ELSE LET c == Lower(category.word)
         IN  WordValue("str", FALSE,
                       IF c \in DOMAIN category_mapping THEN category_mapping[c]
                       ELSE c)

\* ------------------------------------------- main.py, similarity_score
\* A text is the sequence of its whitespace-separated words.
Words == {"Total", "total", "DUE"}
WordSet(text) == {Lower(text[i]) : i \in DOMAIN text}
NoneScore == [overlap_words |-> 0, total_unique_words |-> 0]

\* A variant that divides by the number of words of the first text.
similarity_score_OverFirst(poppler_text, ocr_text) ==
    LET poppler_words == WordSet(poppler_text)
        ocr_words == WordSet(ocr_text)
    IN  IF poppler_words # {} /\ ocr_words # {}
        THEN [overlap_words |-> Cardinality(poppler_words \cap ocr_words),
              total_unique_words |-> Cardinality(poppler_words)]
        ELSE NoneScore

\* The score as the fraction overlap_words / total_unique_words, NoneScore
\* where the code leaves it None.
similarity_score(poppler_text, ocr_text) ==
    LET poppler_words == WordSet(poppler_text)
        ocr_words == WordSet(ocr_text)
    IN  IF poppler_words # {} /\ ocr_words # {}
        THEN [overlap_words |-> Cardinality(poppler_words \cap ocr_words),
              total_unique_words |-> Cardinality(poppler_words \cup ocr_words)]
        ELSE NoneScore

\* ------------------------------------------------------------ models.py
NewDocument(user_id, statement_id) ==
    [user_id |-> user_id, statement_id |-> statement_id,
     poppler_text |-> NoneText, poppler_word_count |-> NoneInt,
     poppler_pages |-> NoneInt, poppler_extraction_success |-> FALSE,
     ocr_text |-> NoneText, ocr_word_count |-> NoneInt, ocr_pages |-> NoneInt,
     ocr_extraction_success |-> FALSE, ocr_confidence |-> NoneInt,
     text_processing_completed |-> FALSE, text_processing_error |-> NoneStr]

NoDocument == NewDocument(0, 0)

\* --------------------------------------------------------------- state
VARIABLES
    env,            \* api_key: GROQ_API_KEY is set in the process environment;
                    \* users: the ids of table users, who hold tokens
    files,          \* uploads/: per uploaded document, exists and has_text
    documents,      \* table documents: id -> row
    transactions,   \* table transaction_details, in insertion order
    bg,             \* per upload: enhanced_process_document_text_extraction
    manual,         \* the extract_document_text handler on the event loop
    txn,            \* the process_transaction_extraction runs
    triggers,       \* HTTP requests served so far
    call            \* one call of an extractor function on its own

vars == <<env, files, documents, transactions, bg, manual, txn, triggers, call>>

\* -------------------------------------------------- the uploaded file
FileText(d) == IF files[d].has_text THEN << <<"word", d>> >> ELSE <<>>
PageTexts(d) == [p \in 1..PdfPages |-> << <<"word", d>> >>]

\* ------------------------------------------ main.py: the text stage
NoTextRun ==
    [pc |-> "idle", doc |-> 0, poppler_result |-> NoPopplerResult,
     ocr_result |-> NoOcrResult, commits |-> 0]

\* A variant whose run goes to the OCR call without the deterministic one.
NewTextRun_OcrFirst(d) == [NoTextRun EXCEPT !.pc = "ocr", !.doc = d]

NewTextRun(d) == [NoTextRun EXCEPT !.pc = "poppler", !.doc = d]

\* int(avg_confidence * 100), the per-page confidences held in percent.
RECURSIVE SumConfidence(_, _)
SumConfidence(pages, k) ==
    IF k = 0 THEN 0 ELSE pages[k].confidence + SumConfidence(pages, k - 1)

AvgConfidence(pages) == SumConfidence(pages, Len(pages)) \div Len(pages)

\* A variant that marks the row completed only when a sub-path succeeded.
TextCompleted_OnSuccess(row) ==
    [row EXCEPT !.text_processing_completed =
        row.poppler_extraction_success \/ row.ocr_extraction_success]

TextCompleted(row) == [row EXCEPT !.text_processing_completed = TRUE]

ApplyPoppler(row, pr) ==
    IF pr.success
    THEN [row EXCEPT !.poppler_extraction_success = TRUE,
                     !.poppler_text = pr.text,
                     !.poppler_word_count = pr.word_count,
                     !.poppler_pages = pr.pages]
    ELSE [row EXCEPT !.poppler_extraction_success = FALSE]

ApplyOcr(row, ocr) ==
    IF ocr.success
    THEN [row EXCEPT !.ocr_extraction_success = TRUE,
                     !.ocr_text = ocr.complete_text,
                     !.ocr_word_count = WordCount(ocr.complete_text),
                     !.ocr_pages = ocr.total_pages,
                     !.ocr_confidence = IF Len(ocr.pages) > 0
                                        THEN AvgConfidence(ocr.pages)
                                        ELSE row.ocr_confidence]
    ELSE [row EXCEPT !.ocr_extraction_success = FALSE]

\* A variant whose success path resets the error of an earlier run.
ApplyTextResults_ClearsError(row, pr, ocr) ==
    [TextCompleted(ApplyOcr(ApplyPoppler(row, pr), ocr))
        EXCEPT !.text_processing_error = NoneStr]

\* A variant that commits the deterministic half of the results only.
ApplyTextResults_PopplerOnly(row, pr, ocr) == TextCompleted(ApplyPoppler(row, pr))

ApplyTextResults(row, pr, ocr) == TextCompleted(ApplyOcr(ApplyPoppler(row, pr), ocr))

\* A variant of the except branch that records the error only.
ApplyTextError_ErrorOnly(row, e) == [row EXCEPT !.text_processing_error = e]

ApplyTextError(row, e) ==
    [row EXCEPT !.text_processing_error = e, !.text_processing_completed = TRUE]

\* extract_text_from_pdf(file_path) as called by the text stage.
StepPoppler(run, tool) ==
    LET d == run.doc
        r == extract_text_from_pdf(files[d].exists, tool # "missing", tool,
                                   FileText(d), PdfPages)
    IN  [run EXCEPT !.poppler_result = r,
                    !.pc = IF r.raised THEN "except" ELSE "ocr"]

\* process_pdf_with_ocr(file_path) as called by the text stage.
StepOcr(run, images, outcomes) ==
    LET d == run.doc
        r == process_pdf_with_ocr(files[d].exists, images, env.api_key, outcomes,
                                  PageTexts(d))
    IN  [run EXCEPT !.ocr_result = r, !.pc = "commit"]

\* What the environment decides in one text-stage run: whether pdftotext
\* succeeds, whether the pages rasterize, and each vision-API call's outcome.
StageTools == {"ok", "nonzero"}
OcrInputs == {0, PdfPages}
OutcomeVectors == [1..PdfPages -> ApiOutcomes]
\* In a text-stage run the vision API answers every page alike.
StageOutcomes == {[p \in 1..PdfPages |-> o] : o \in ApiOutcomes}

\* ------------------------------------- main.py: the transaction stage
\* A variant that looks at the success flags only, not at the texts.
SelectText_FlagsOnly(document) ==
    IF document.poppler_extraction_success
    THEN [text |-> document.poppler_text, source |-> "poppler"]
    ELSE IF document.ocr_extraction_success
    THEN [text |-> document.ocr_text, source |-> "ocr"]
    ELSE [text |-> NoneText, source |-> NoneStr]

SelectText(document) ==
    IF document.poppler_extraction_success /\ Truthy(document.poppler_text)
    THEN [text |-> document.poppler_text, source |-> "poppler"]
    ELSE IF document.ocr_extraction_success /\ Truthy(document.ocr_text)
    THEN [text |-> document.ocr_text, source |-> "ocr"]
    ELSE [text |-> NoneText, source |-> NoneStr]

\* A variant of the handler without its 400 "Text processing not completed".
TextProcessingGuard_Absent(document) == TRUE

TextProcessingGuard(document) == document.text_processing_completed

NoTxnRun ==
    [pc |-> "done", origin |-> "none", trigger_doc |-> 0, statement_id |-> 0,
     doc |-> 0, document |-> NoDocument, text_to_extract |-> NoneText,
     extraction_source |-> NoneStr, extraction_result |-> NoExtraction,
     engine_calls |-> 0, llm_calls |-> 0, received |-> NoneStr,
     received_json |-> NoneStr, todo |-> <<>>, saved |-> 0]

NewTxnRun(origin, d, s) ==
    [NoTxnRun EXCEPT !.pc = "query", !.origin = origin, !.trigger_doc = d,
                     !.statement_id = s]

\* The runs in flight, keyed by what started them: <<"bg", d>> is the thread
\* of document d's upload, <<"manual", n>> the task of the n-th request.
NoRuns == [k \in {} |-> NoTxnRun]
Started(key, run) ==
    [k \in DOMAIN txn \cup {key} |-> IF k = key THEN run ELSE txn[k]]
Returned(key) == [k \in DOMAIN txn \ {key} |-> txn[k]]

\* What the LLM answers in a transaction-stage run: an empty array, or
\* MaxItems elements of one kind.
StageItems ==
    {<<>>} \cup {[i \in 1..MaxItems |-> [kind |-> k, data |-> i]] : k \in ItemKinds}

\* The body the chat-completion call answers with in a transaction-stage run.
StageBody(outcome, items) ==
    IF outcome = "bad_json" THEN Body("text1", "garbage", "absent", <<>>, FALSE)
    ELSE Body("text1", "object", "array", items, TRUE)

\* ------------------------------------------- one extractor call alone
NoCall ==
    [fn |-> "none", pc |-> "returned", exists |-> FALSE, api_key |-> FALSE,
     images |-> 0, outcomes |-> <<>>, tool |-> "ok", has_text |-> FALSE,
     page_tools |-> <<>>, temp_left |-> 0, api_ok |-> FALSE,
     body |-> Body("text1", "garbage", "absent", <<>>, FALSE),
     poppler_result |-> NoPopplerResult, ocr_result |-> NoOcrResult,
     pages_result |-> NoPagesResult, extraction_result |-> NoExtraction,
     current_user_id |-> 0, id |-> 0, status |-> 0, response |-> {},
     arg |-> <<>>, result |-> <<>>]

OcrCalls ==
    {[NoCall EXCEPT !.fn = "process_pdf_with_ocr", !.pc = "called",
                    !.exists = e, !.api_key = k, !.images = n, !.outcomes = o] :
        e \in BOOLEAN, k \in BOOLEAN, n \in 0..PdfPages, o \in OutcomeVectors}

PopplerCalls ==
    {[NoCall EXCEPT !.fn = "extract_text_from_pdf", !.pc = "called",
                    !.exists = e, !.tool = t, !.has_text = h] :
        e \in BOOLEAN, t \in ToolOutcomes, h \in BOOLEAN}

\* images holds what get_page_count returned, tool whether the tool check
\* passed ("ok") or not ("missing").
PageCalls ==
    {[NoCall EXCEPT !.fn = "extract_text_by_pages", !.pc = "called",
                    !.exists = e, !.tool = t, !.images = n, !.page_tools = o] :
        e \in BOOLEAN, t \in {"ok", "missing"}, n \in 0..PdfPages,
        o \in [1..PdfPages -> PageToolOutcomes]}

\* The arrays a body may carry: element i is line item i, as an object or not.
ElementLists ==
    UNION {{[i \in 1..n |-> [kind |-> ks[i], data |-> i]] :
              ks \in [1..n -> ItemKinds]} : n \in 0..MaxElements}

Bodies ==
    {Body(raw, "garbage", "absent", <<>>, FALSE) : raw \in RawTexts}
    \cup {Body(raw, "nonobject", "absent", <<>>, FALSE) : raw \in RawTexts}
    \cup {Body(raw, "object", sh, <<>>, c) :
             raw \in RawTexts, sh \in TransactionsShapes \ {"array"}, c \in BOOLEAN}
    \cup {Body(raw, "object", "array", items, c) :
             raw \in RawTexts, items \in ElementLists, c \in BOOLEAN}

\* extract_transactions(statement_text, statement_id) for statement 1.
EngineCalls ==
    {[NoCall EXCEPT !.fn = "extract_transactions", !.pc = "called",
                    !.api_key = k, !.api_ok = a, !.body = b] :
        k \in BOOLEAN, a \in BOOLEAN, b \in Bodies}

\* Statement texts around the truncation limit; character i is i % 3.
PromptCalls ==
    {[NoCall EXCEPT !.fn = "_create_extraction_prompt", !.pc = "called",
                    !.arg = [i \in 1..n |-> i % 3]] :
        n \in {0, 1, max_chars - 1, max_chars, max_chars + 1, max_chars + 2}}

SimilarityCalls ==
    LET WordTexts == UNION {[1..n -> Words] : n \in 0..MaxWords}
    IN  {[NoCall EXCEPT !.fn = "similarity_score", !.pc = "called",
                        !.arg = <<a, b>>] : a \in WordTexts, b \in WordTexts}

\* Date values: field values on both sides of every range check, a two-digit
\* year, a leap and a common year, and the values that are no date strings.
DateValues ==
    LET DateFields == {0, 2, 4, 13, 29, 31, 32}
        DateYears == {24, 2023, 2024}
    IN
    {DateString(form, a, b, c, 0) :
        form \in {"dash", "slash"}, a \in DateFields \cup DateYears,
        b \in DateFields, c \in DateFields \cup DateYears}
    \cup {DateString("dash_time", y, m, d, hh) :
             y \in DateYears, m \in DateFields, d \in DateFields, hh \in {23, 24}}
    \cup {DateString("text", 0, 0, 0, 0), DateString("empty", 0, 0, 0, 0),
          NoneValue, IntValue(0), IntValue(20240115)}
DateCalls ==
    {[NoCall EXCEPT !.fn = "_parse_date", !.pc = "called", !.arg = v] :
        v \in DateValues}

\* Amounts as the LLM may write them: "$1,234.56", "-75.00", "-$5", " 5 ",
\* "1 000", the euro sign before 12.50 (written "euro"), "N/A", "NaN", "-Infinity", "", "1.2.3", ".5", "--5";
\* and the values None, 42 and true.
AmountCalls ==
    {[NoCall EXCEPT !.fn = "_parse_amount", !.pc = "called", !.arg = v] :
        v \in {[type |-> "str", chars |-> cs] : cs \in
                 {<<"$", "1", ",", "2", "3", "4", ".", "5", "6">>,
                  <<"-", "7", "5", ".", "0", "0">>,
                  <<"-", "$", "5">>,
                  <<" ", "5", " ">>,
                  <<"1", " ", "0", "0", "0">>,
                  <<"euro", "1", "2", ".", "5", "0">>,
                  <<"N", "/", "A">>,
                  <<"N", "a", "N">>,
                  <<"-", "I", "n", "f", "i", "n", "i", "t", "y">>,
                  <<>>,
                  <<"1", ".", "2", ".", "3">>,
                  <<".", "5">>,
                  <<"-", "-", "5">>}}
           \cup {[type |-> "none", chars |-> <<"N", "o", "n", "e">>],
                 [type |-> "int", chars |-> <<"4", "2">>],
                 [type |-> "bool", chars |-> <<"T", "r", "u", "e">>]}}

\* Categories and types as the LLM may write them, with and without
\* whitespace around them, the empty string, None and the numbers 5 and 0.
NormalizeCalls ==
    {[NoCall EXCEPT !.fn = f, !.pc = "called", !.arg = v] :
        f \in {"_normalize_category", "_normalize_transaction_type"},
        v \in {WordValue("str", pad, w) :
                 pad \in BOOLEAN,
                 w \in {"gas", "Gas", "GAS", "fuel", "grocery", "fee", "Fee", "fees",
                        "medical", "debit", "Debit", "purchase", "XYZ", "xyz", ""}}
              \cup {NoneWord, WordValue("int", FALSE, "5"),
                    WordValue("int", FALSE, "0")}}

CallText(c) == IF c.has_text THEN << <<"word", 1>> >> ELSE <<>>

\* ---------------------------------------------------------------- Init
Init ==
    /\ env \in [api_key : BOOLEAN, users : {{1}}]
    /\ files = <<>>
    /\ documents = <<>>
    /\ transactions = <<>>
    /\ bg = <<>>
    /\ manual = NoTextRun
    /\ txn = NoRuns
    /\ triggers = 0
    /\ call = NoCall

Uploaded == DOMAIN files
EventLoopFree == manual.pc = "idle"
CanTrigger == triggers < MaxTriggers /\ EventLoopFree

\* ------------------------------------------------------ HTTP handlers
\* POST /upload-document/: store the file, insert the row, schedule
\* enhanced_process_document_text_extraction as a background task.
upload_document(current_user_id, statement_id, has_text) ==
    /\ CanTrigger
    /\ Cardinality(Uploaded) < MaxDocs
    /\ LET d == Cardinality(Uploaded) + 1
       IN  /\ files' = [x \in Uploaded \cup {d} |->
                          IF x = d THEN [exists |-> TRUE, has_text |-> has_text]
                          ELSE files[x]]
           /\ documents' = [x \in DOMAIN documents \cup {d} |->
                              IF x = d THEN NewDocument(current_user_id, statement_id)
                              ELSE documents[x]]
           /\ bg' = [x \in Uploaded \cup {d} |->
                       IF x = d THEN NewTextRun(d) ELSE bg[x]]
    /\ triggers' = triggers + 1
    /\ UNCHANGED <<call, env, transactions, manual, txn>>

\* Document.transaction_details: the rows joined to the document by
\* statement_id, deleted with it (ForeignKey ondelete="CASCADE").
TransactionDetailsOf(row) ==
    {i \in 1..Len(transactions) : transactions[i].statement_id = row.statement_id}

RECURSIVE Without(_, _)
Without(rows, gone) ==
    IF rows = <<>> THEN <<>>
    ELSE IF Len(rows) \in gone
    THEN Without(SubSeq(rows, 1, Len(rows) - 1), gone)
    ELSE Append(Without(SubSeq(rows, 1, Len(rows) - 1), gone), rows[Len(rows)])

\* DELETE /documents/{document_id}, by the owner.
delete_document(current_user_id, d) ==
    /\ CanTrigger
    /\ d \in DOMAIN documents
    /\ documents[d].user_id = current_user_id
    /\ files' = [files EXCEPT ![d].exists = FALSE]
    /\ documents' = [x \in DOMAIN documents \ {d} |-> documents[x]]
    /\ transactions' = Without(transactions, TransactionDetailsOf(documents[d]))
    /\ triggers' = triggers + 1
    /\ UNCHANGED <<call, env, bg, manual, txn>>

\* POST /documents/{document_id}/extract-text, by the owner: the handler
\* loads the row and checks the file, then runs both extractors itself.
extract_document_text(current_user_id, d) ==
    /\ CanTrigger
    /\ d \in DOMAIN documents
    /\ documents[d].user_id = current_user_id
    /\ files[d].exists
    /\ manual' = NewTextRun(d)
    /\ triggers' = triggers + 1
    /\ UNCHANGED <<call, env, files, documents, transactions, bg, txn>>

\* A variant that refuses the request while a run for the statement is in
\* flight.
manually_extract_transactions_Leased(current_user_id, d) ==
    /\ CanTrigger
    /\ d \in DOMAIN documents
    /\ documents[d].user_id = current_user_id
    /\ TextProcessingGuard(documents[d])
    /\ \A r \in DOMAIN txn : txn[r].statement_id # documents[d].statement_id
    /\ txn' = Started(<<"manual", triggers>>,
                       NewTxnRun("manual", d, documents[d].statement_id))
    /\ triggers' = triggers + 1
    /\ UNCHANGED <<call, env, files, documents, transactions, bg, manual>>

\* POST /statements/{statement_id}/extract-transactions by user_id: d is the
\* row .first() returns for (statement_id, user_id).
manually_extract_transactions(current_user_id, d) ==
    /\ CanTrigger
    /\ d \in DOMAIN documents
    /\ documents[d].user_id = current_user_id
    /\ TextProcessingGuard(documents[d])
    /\ txn' = Started(<<"manual", triggers>>,
                       NewTxnRun("manual", d, documents[d].statement_id))
    /\ triggers' = triggers + 1
    /\ UNCHANGED <<call, env, files, documents, transactions, bg, manual>>

\* The ownership query of the transaction endpoints: a row of documents
\* with this statement_id and this user_id.
OwnsStatement(current_user_id, statement_id) ==
    \E d \in DOMAIN documents :
        /\ documents[d].statement_id = statement_id
        /\ documents[d].user_id = current_user_id

\* DELETE /transactions/{transaction_id}: the row exists and a document of
\* the caller carries its statement_id.
delete_transaction(current_user_id, i) ==
    /\ CanTrigger
    /\ i \in 1..Len(transactions)
    /\ OwnsStatement(current_user_id, transactions[i].statement_id)
    /\ transactions' = Without(transactions, {i})
    /\ triggers' = triggers + 1
    /\ UNCHANGED <<call, env, files, documents, bg, manual, txn>>

\* DELETE /statements/{statement_id}/transactions: a document of the caller
\* carries the statement_id; every row of the statement is deleted.
delete_all_transactions(current_user_id, statement_id) ==
    /\ CanTrigger
    /\ OwnsStatement(current_user_id, statement_id)
    /\ transactions' = Without(transactions,
           {i \in 1..Len(transactions) :
               transactions[i].statement_id = statement_id})
    /\ triggers' = triggers + 1
    /\ UNCHANGED <<call, env, files, documents, bg, manual, txn>>

\* The upload directory is external storage: extract_document_text itself
\* checks for a row whose file is gone.
UploadedFileLost(d) ==
    /\ d \in DOMAIN documents
    /\ files[d].exists
    /\ files' = [files EXCEPT ![d].exists = FALSE]
    /\ UNCHANGED <<call, env, documents, transactions, bg, manual, txn, triggers>>

\* ------------------------------ the text stage, manual (event loop)
ManualPoppler ==
    /\ manual.pc = "poppler"
    /\ \E tool \in StageTools : manual' = StepPoppler(manual, tool)
    /\ UNCHANGED <<call, env, files, documents, transactions, bg, txn, triggers>>

ManualOcr ==
    /\ manual.pc = "ocr"
    /\ \E images \in OcrInputs, outcomes \in StageOutcomes :
           manual' = StepOcr(manual, images, outcomes)
    /\ UNCHANGED <<call, env, files, documents, transactions, bg, txn, triggers>>

ManualCommit ==
    /\ manual.pc = "commit"
    /\ documents' = [documents EXCEPT ![manual.doc] =
           ApplyTextResults(@, manual.poppler_result, manual.ocr_result)]
    /\ manual' = [manual EXCEPT !.pc = "respond", !.commits = @ + 1]
    /\ UNCHANGED <<call, env, files, transactions, bg, txn, triggers>>

ManualExcept ==
    /\ manual.pc = "except"
    /\ documents' = [documents EXCEPT ![manual.doc] =
           ApplyTextError(@, manual.poppler_result.error)]
    /\ manual' = [manual EXCEPT !.pc = "respond", !.commits = @ + 1]
    /\ UNCHANGED <<call, env, files, transactions, bg, txn, triggers>>

\* The handler returns its TextExtractionResponse, or raises HTTPException(500).
ManualRespond ==
    /\ manual.pc = "respond"
    /\ manual' = NoTextRun
    /\ UNCHANGED <<call, env, files, documents, transactions, bg, txn, triggers>>

\* ------------------- the text stage, background (threadpool), per upload
BgPoppler(d) ==
    /\ bg[d].pc = "poppler"
    /\ \E tool \in StageTools : bg' = [bg EXCEPT ![d] = StepPoppler(@, tool)]
    /\ UNCHANGED <<call, env, files, documents, transactions, manual, txn, triggers>>

BgOcr(d) ==
    /\ bg[d].pc = "ocr"
    /\ \E images \in OcrInputs, outcomes \in StageOutcomes :
           bg' = [bg EXCEPT ![d] = StepOcr(@, images, outcomes)]
    /\ UNCHANGED <<call, env, files, documents, transactions, manual, txn, triggers>>

\* enhanced_process_document_text_extraction after the text stage returned:
\* the thread is started when the row exists and is completed.
Spawned(d, docs) ==
    IF d \in DOMAIN docs /\ docs[d].text_processing_completed
    THEN Started(<<"bg", d>>, NewTxnRun("bg", d, docs[d].statement_id))
    ELSE txn

BgFinished(run) == [NoTextRun EXCEPT !.pc = "done", !.doc = run.doc,
                                     !.commits = run.commits]

\* The commit of the text stage and the start of the transaction thread; the
\* row is read back right after the commit.
BgCommit(d) ==
    /\ bg[d].pc = "commit"
    /\ IF d \in DOMAIN documents
       THEN /\ documents' = [documents EXCEPT ![d] =
                   ApplyTextResults(@, bg[d].poppler_result, bg[d].ocr_result)]
            /\ bg' = [bg EXCEPT ![d] = BgFinished([@ EXCEPT !.commits = @ + 1])]
       ELSE /\ bg' = [bg EXCEPT ![d] = BgFinished(@)]
            /\ UNCHANGED documents
    /\ txn' = Spawned(d, documents')
    /\ UNCHANGED <<call, env, files, transactions, manual, triggers>>

BgExcept(d) ==
    /\ bg[d].pc = "except"
    /\ IF d \in DOMAIN documents
       THEN /\ documents' = [documents EXCEPT ![d] =
                   ApplyTextError(@, bg[d].poppler_result.error)]
            /\ bg' = [bg EXCEPT ![d] = BgFinished([@ EXCEPT !.commits = @ + 1])]
       ELSE /\ bg' = [bg EXCEPT ![d] = BgFinished(@)]
            /\ UNCHANGED documents
    /\ txn' = Spawned(d, documents')
    /\ UNCHANGED <<call, env, files, transactions, manual, triggers>>

\* --------------------- process_transaction_extraction(statement_id, db)
\* The query by statement_id, the choice of the text source and the call of
\* extractor.extract_transactions; .first() has no ORDER BY, so any row with
\* that statement_id may be the one read.  The call touches no shared state,
\* so it is taken in the same step as the read.
\* A variant that calls the engine again when the first call failed.
TxnStarted_Retrying(run, d, row, outcome, items) ==
    LET sel == SelectText(row)
        body == StageBody(outcome, items)
        got == env.api_key /\ outcome # "api_error"
        res == extract_transactions(env.api_key, outcome # "api_error", body,
                                    run.statement_id)
    IN  IF sel.source = NoneStr
        THEN [run EXCEPT !.doc = d, !.document = row, !.pc = "exit"]
        ELSE [run EXCEPT !.doc = d, !.document = row,
                         !.text_to_extract = sel.text,
                         !.extraction_source = sel.source,
                         !.extraction_result = res,
                         !.engine_calls = @ + 1,
                         !.llm_calls = @ + (IF env.api_key THEN 1 ELSE 0),
                         !.received = IF got THEN body.raw ELSE NoneStr,
                         !.received_json = IF got THEN body.json ELSE NoneStr,
                         !.todo = res.transactions,
                         !.pc = IF res.success /\ res.transactions # <<>>
                                THEN "save"
                                ELSE IF ~res.success /\ run.engine_calls = 0
                                THEN "query" ELSE "exit"]

TxnStarted(run, d, row, outcome, items) ==
    LET sel == SelectText(row)
        body == StageBody(outcome, items)
        got == env.api_key /\ outcome # "api_error"
        res == extract_transactions(env.api_key, outcome # "api_error", body,
                                    run.statement_id)
    IN  IF sel.source = NoneStr
        THEN [run EXCEPT !.doc = d, !.document = row, !.pc = "exit"]
        ELSE [run EXCEPT !.doc = d, !.document = row,
                         !.text_to_extract = sel.text,
                         !.extraction_source = sel.source,
                         !.extraction_result = res,
                         !.engine_calls = @ + 1,
                         !.llm_calls = @ + (IF env.api_key THEN 1 ELSE 0),
                         !.received = IF got THEN body.raw ELSE NoneStr,
                         !.received_json = IF got THEN body.json ELSE NoneStr,
                         !.todo = res.transactions,
                         !.pc = IF res.success /\ res.transactions # <<>>
                                THEN "save" ELSE "exit"]

TxnQuery(r) ==
    /\ txn[r].pc = "query"
    /\ LET found == {d \in DOMAIN documents :
                        documents[d].statement_id = txn[r].statement_id}
       IN  IF found = {}
           THEN txn' = [txn EXCEPT ![r].pc = "exit"]
           ELSE \E d \in found, outcome \in LlmOutcomes, items \in StageItems :
                  txn' = [txn EXCEPT ![r] =
                            TxnStarted(@, d, documents[d], outcome, items)]
    /\ UNCHANGED <<call, env, files, documents, transactions, bg, manual, triggers>>

\* One pass of the loop over extraction_result["transactions"]: the row is
\* added and committed on its own.
\* A variant that stores the record as the engine returned it.
SavedRow_AsReturned(run) ==
    LET data == Head(run.todo)
    IN  [statement_id |-> data.statement_id,
         description |-> data.description,
         extraction_source |-> data.extraction_source,
         processing_completed |-> data.processing_completed,
         processing_error |-> data.processing_error,
         from_doc |-> run.doc]

SavedRow(run) ==
    LET data == [Head(run.todo) EXCEPT !.extraction_source = run.extraction_source]
    IN  [statement_id |-> data.statement_id,
         description |-> data.description,
         extraction_source |-> data.extraction_source,
         processing_completed |-> data.processing_completed,
         processing_error |-> data.processing_error,
         from_doc |-> run.doc]

TxnSave(r) ==
    /\ txn[r].pc = "save"
    /\ transactions' = Append(transactions, SavedRow(txn[r]))
    /\ txn' = [txn EXCEPT
                 ![r].todo = Tail(@),
                 ![r].saved = @ + 1,
                 ![r].pc = IF Tail(txn[r].todo) = <<>> THEN "exit" ELSE "save"]
    /\ UNCHANGED <<call, env, files, documents, bg, manual, triggers>>

\* The function returns; its locals are gone.
TxnExit(r) ==
    /\ txn[r].pc = "exit"
    /\ txn' = Returned(r)
    /\ UNCHANGED <<call, env, files, documents, transactions, bg, manual, triggers>>

\* ---------------------------------------------------------------- Next
Next ==
    \/ \E u \in env.users, s \in 1..MaxDocs, t \in BOOLEAN :
          /\ s <= Cardinality(Uploaded) + 1
          /\ upload_document(u, s, t)
    \/ \E u \in env.users, d \in DocIds : delete_document(u, d)
    \/ \E u \in env.users, d \in DocIds : extract_document_text(u, d)
    \/ \E u \in env.users, d \in DocIds : manually_extract_transactions(u, d)
    \/ \E u \in env.users, i \in 1..Len(transactions) : delete_transaction(u, i)
    \/ \E u \in env.users, s \in 1..MaxDocs : delete_all_transactions(u, s)
    \/ \E d \in DocIds : UploadedFileLost(d)
    \/ ManualPoppler
    \/ ManualOcr
    \/ ManualCommit
    \/ ManualExcept
    \/ ManualRespond
    \/ \E d \in DOMAIN bg : BgPoppler(d)
    \/ \E d \in DOMAIN bg : BgOcr(d)
    \/ \E d \in DOMAIN bg : BgCommit(d)
    \/ \E d \in DOMAIN bg : BgExcept(d)
    \/ \E r \in DOMAIN txn : TxnQuery(r)
    \/ \E r \in DOMAIN txn : TxnSave(r)
    \/ \E r \in DOMAIN txn : TxnExit(r)

Spec == Init /\ [][Next]_vars

\* The background task of an upload runs on until it returns: the threadpool
\* schedules it, and every external call it makes returns.
BgStep(d) ==
    /\ d \in DOMAIN bg
    /\ (BgPoppler(d) \/ BgOcr(d) \/ BgCommit(d) \/ BgExcept(d))

SpecLive == Spec /\ \A d \in DocIds : WF_vars(BgStep(d))

\* --------------------- the extractor functions, each called on its own
InitExtractors ==
    /\ env = [api_key |-> FALSE, users |-> {1}]
    /\ files = <<>>
    /\ documents = <<>>
    /\ transactions = <<>>
    /\ bg = <<>>
    /\ manual = NoTextRun
    /\ txn = NoRuns
    /\ triggers = 0
    /\ call \in OcrCalls \cup PopplerCalls \cup PageCalls \cup EngineCalls
                \cup PromptCalls \cup SimilarityCalls \cup DateCalls
                \cup AmountCalls \cup NormalizeCalls

CallOcr ==
    /\ call.fn = "process_pdf_with_ocr"
    /\ call.pc = "called"
    /\ call' = [call EXCEPT
                  !.pc = "returned",
                  !.ocr_result = process_pdf_with_ocr(
                      call.exists, call.images, call.api_key, call.outcomes,
                      PageTexts(1))]
    /\ UNCHANGED <<env, files, documents, transactions, bg, manual, txn, triggers>>

CallPoppler ==
    /\ call.fn = "extract_text_from_pdf"
    /\ call.pc = "called"
    /\ call' = [call EXCEPT
                  !.pc = "returned",
                  !.poppler_result = extract_text_from_pdf(
                      call.exists, call.tool # "missing", call.tool,
                      CallText(call), PdfPages),
                  !.temp_left = TempFilesLeft(call.exists, call.tool # "missing",
                                              call.tool)]
    /\ UNCHANGED <<env, files, documents, transactions, bg, manual, txn, triggers>>

CallPages ==
    /\ call.fn = "extract_text_by_pages"
    /\ call.pc = "called"
    /\ LET res == extract_text_by_pages(call.exists, call.tool # "missing",
                                         call.images, call.page_tools, PageTexts(1))
       IN  call' = [call EXCEPT !.pc = "returned", !.pages_result = res,
                                !.temp_left = res.temp_left]
    /\ UNCHANGED <<env, files, documents, transactions, bg, manual, txn, triggers>>

CallEngine ==
    /\ call.fn = "extract_transactions"
    /\ call.pc = "called"
    /\ call' = [call EXCEPT
                  !.pc = "returned",
                  !.extraction_result = extract_transactions(
                      call.api_key, call.api_ok, call.body, 1)]
    /\ UNCHANGED <<env, files, documents, transactions, bg, manual, txn, triggers>>

CallPrompt ==
    /\ call.fn = "_create_extraction_prompt"
    /\ call.pc = "called"
    /\ call' = [call EXCEPT !.pc = "returned",
                            !.result = create_extraction_prompt(call.arg)]
    /\ UNCHANGED <<env, files, documents, transactions, bg, manual, txn, triggers>>

CallSimilarity ==
    /\ call.fn = "similarity_score"
    /\ call.pc = "called"
    /\ call' = [call EXCEPT !.pc = "returned",
                            !.result = similarity_score(call.arg[1], call.arg[2])]
    /\ UNCHANGED <<env, files, documents, transactions, bg, manual, txn, triggers>>

CallParseDate ==
    /\ call.fn = "_parse_date"
    /\ call.pc = "called"
    /\ call' = [call EXCEPT !.pc = "returned", !.result = parse_date(call.arg)]
    /\ UNCHANGED <<env, files, documents, transactions, bg, manual, txn, triggers>>

CallParseAmount ==
    /\ call.fn = "_parse_amount"
    /\ call.pc = "called"
    /\ call' = [call EXCEPT !.pc = "returned", !.result = parse_amount(call.arg)]
    /\ UNCHANGED <<env, files, documents, transactions, bg, manual, txn, triggers>>

CallNormalizeCategory ==
    /\ call.fn = "_normalize_category"
    /\ call.pc = "called"
    /\ call' = [call EXCEPT !.pc = "returned",
                            !.result = normalize_category(call.arg)]
    /\ UNCHANGED <<env, files, documents, transactions, bg, manual, txn, triggers>>

CallNormalizeType ==
    /\ call.fn = "_normalize_transaction_type"
    /\ call.pc = "called"
    /\ call' = [call EXCEPT !.pc = "returned",
                            !.result = normalize_transaction_type(call.arg)]
    /\ UNCHANGED <<env, files, documents, transactions, bg, manual, txn, triggers>>

NextExtractors ==
    \/ CallOcr
    \/ CallPoppler
    \/ CallPages
    \/ CallEngine
    \/ CallPrompt
    \/ CallSimilarity
    \/ CallParseDate
    \/ CallParseAmount
    \/ CallNormalizeCategory
    \/ CallNormalizeType

SpecExtractors == InitExtractors /\ [][NextExtractors]_vars

\* ------------------- the transaction endpoints over a processed database
\* A document whose upload has gone through the text stage, its text
\* extracted by the deterministic extractor and OCR failed.
ProcessedDocument(user_id, statement_id) ==
    ApplyTextResults(NewDocument(user_id, statement_id),
                     extract_text_from_pdf(TRUE, TRUE, "ok", << <<"word", 1>> >>,
                                           PdfPages),
                     OcrFailure("No images extracted from PDF"))

\* The rows a transaction-stage run saves for the records it holds, and the
\* rows of the runs of documents 1..n, each for its own line items.
RECURSIVE SavedRows(_)
SavedRows(run) ==
    IF run.todo = <<>> THEN <<>>
    ELSE <<SavedRow(run)>> \o SavedRows([run EXCEPT !.todo = Tail(@)])

RECURSIVE AllRows(_, _, _)
AllRows(n, docs, items) ==
    IF n = 0 THEN <<>>
    ELSE AllRows(n - 1, docs, items)
         \o SavedRows(TxnStarted(NewTxnRun("bg", n, docs[n].statement_id),
                                 n, docs[n], "ok", items[n]))

\* The database after n of these numbers of uploads by any of these users
\* under any statement ids, each processed to the end, and no request in
\* progress.
Processed(users, uploads) ==
    /\ env = [api_key |-> TRUE, users |-> users]
    /\ \E n \in uploads :
         \E owner \in [1..n -> users], stmt \in [1..n -> 1..MaxDocs],
            items \in [1..n -> StageItems] :
            /\ documents = [d \in 1..n |-> ProcessedDocument(owner[d], stmt[d])]
            /\ files = [d \in 1..n |-> [exists |-> TRUE, has_text |-> TRUE]]
            /\ bg = [d \in 1..n |-> BgFinished([NewTextRun(d) EXCEPT !.commits = 1])]
            /\ transactions = AllRows(n, documents, items)
    /\ manual = NoTextRun
    /\ txn = NoRuns
    /\ triggers = 0
    /\ call = NoCall

InitAccess == Processed(Users, DocIds)

\* GET /statements/{statement_id}/transactions: 404 unless a document of the
\* caller carries the statement_id, else every row of the statement.
get_transactions_by_statement(current_user_id, statement_id) ==
    /\ call' = [NoCall EXCEPT
                  !.fn = "get_transactions_by_statement",
                  !.current_user_id = current_user_id,
                  !.id = statement_id,
                  !.status = IF OwnsStatement(current_user_id, statement_id)
                             THEN 200 ELSE 404,
                  !.response = IF OwnsStatement(current_user_id, statement_id)
                               THEN {transactions[i] : i \in
                                       {j \in 1..Len(transactions) :
                                          transactions[j].statement_id = statement_id}}
                               ELSE {}]
    /\ UNCHANGED <<env, files, documents, transactions, bg, manual, txn, triggers>>

\* GET /transactions/{transaction_id}: 404 without the row, 403 unless a
\* document of the caller carries its statement_id, else the row.
get_transaction(current_user_id, transaction_id) ==
    /\ LET found == transaction_id \in 1..Len(transactions)
           allowed == found /\ OwnsStatement(current_user_id,
                                   transactions[transaction_id].statement_id)
       IN  call' = [NoCall EXCEPT
                      !.fn = "get_transaction",
                      !.current_user_id = current_user_id,
                      !.id = transaction_id,
                      !.status = IF ~found THEN 404
                                 ELSE IF ~allowed THEN 403 ELSE 200,
                      !.response = IF allowed THEN {transactions[transaction_id]}
                                   ELSE {}]
    /\ UNCHANGED <<env, files, documents, transactions, bg, manual, txn, triggers>>

NextAccess ==
    \/ \E u \in env.users, s \in 1..MaxDocs : get_transactions_by_statement(u, s)
    \/ \E u \in env.users, i \in 1..MaxDocs * MaxItems : get_transaction(u, i)
    \/ \E u \in env.users, i \in 1..Len(transactions) : delete_transaction(u, i)
    \/ \E u \in env.users, s \in 1..MaxDocs : delete_all_transactions(u, s)

SpecAccess == InitAccess /\ [][NextAccess]_vars

\* ------------------------- the pipeline after a first, processed upload
\* One user's first document is in the database, processed to the end; the
\* requests counted in triggers are those that follow.
InitProcessed == Processed({1}, {1})

SpecProcessed == InitProcessed /\ [][Next]_vars

\* ================================================================ properties
InProgress(run) == run.pc \in {"poppler", "ocr", "commit", "except"}

\* A text-extraction run for document d has started and not yet committed.
RunsOn(m, b, d) ==
    \/ m.doc = d /\ InProgress(m)
    \/ d \in DOMAIN b /\ InProgress(b[d])

TextRunInProgress(d) == RunsOn(manual, bg, d)

\* The step in which a text-extraction run for document d commits.
TextCommitStep(d) ==
    \/ manual.doc = d /\ manual.pc \in {"commit", "except"} /\ manual'.pc = "respond"
    \/ d \in DOMAIN bg /\ bg[d].pc \in {"commit", "except"} /\ bg'[d].pc = "done"

Usable(flag, text) == flag /\ text # NoneText /\ Len(text) > 0

\* ---------------------------------------------------------------------- C1
\* C1: in every run of process_transaction_extraction that has read its
\* document, the engine got the poppler text if the row's poppler flag is set
\* and that text is non-empty; otherwise the OCR text if the OCR flag is set
\* and that text is non-empty; otherwise the engine was not called and the run
\* persisted no transaction.  The engine is called at most once per run.
C1_SourceSelectionPolicy ==
    \A r \in DOMAIN txn :
        LET run == txn[r]
            row == run.document
            pop == Usable(row.poppler_extraction_success, row.poppler_text)
            ocr == Usable(row.ocr_extraction_success, row.ocr_text)
        IN  /\ run.engine_calls <= 1
            /\ run.doc # 0 /\ pop =>
                  /\ run.engine_calls = 1
                  /\ run.text_to_extract = row.poppler_text
                  /\ run.extraction_source = "poppler"
            /\ run.doc # 0 /\ ~pop /\ ocr =>
                  /\ run.engine_calls = 1
                  /\ run.text_to_extract = row.ocr_text
                  /\ run.extraction_source = "ocr"
            /\ run.pc # "query" /\ (run.doc = 0 \/ (~pop /\ ~ocr)) =>
                  /\ run.engine_calls = 0
                  /\ run.llm_calls = 0
                  /\ run.saved = 0
                  /\ run.pc = "exit"

\* C1 witness: a run fell through to the OCR text because the poppler flag is
\* set but the poppler text is empty, and it persisted a transaction.
C1_Witness ==
    \E r \in DOMAIN txn :
        /\ txn[r].document.poppler_extraction_success
        /\ txn[r].document.poppler_text = <<>>
        /\ txn[r].extraction_source = "ocr"
        /\ txn[r].saved > 0

\* ---------------------------------------------------------------------- C2
\* C2: when the background text stage finishes, the transaction thread is
\* started only if the stage ended without exception and with at least one
\* sub-path successful; otherwise no thread is started and the row is
\* completed with an error recorded on it.
C2_StartsOnlyAfterOk ==
    [][\A d \in DOMAIN bg :
          (bg[d].pc \in {"commit", "except"} /\ bg'[d].pc = "done") =>
              LET ok == /\ bg[d].pc = "commit"
                        /\ (bg[d].poppler_result.success \/ bg[d].ocr_result.success)
              IN  \/ ok
                  \/ /\ <<"bg", d>> \notin DOMAIN txn'
                     /\ d \in DOMAIN documents' =>
                           /\ documents'[d].text_processing_completed
                           /\ documents'[d].text_processing_error # NoneStr]_vars

\* ---------------------------------------------------------------------- C3
PersistedError ==
    \/ \E d \in DOMAIN documents : documents[d].text_processing_error # NoneStr
    \/ \E i \in 1..Len(transactions) : transactions[i].processing_error # NoneStr

\* C3: after a failing stage some persisted document or transaction row
\* carries an error message: after a text run committed with a failed
\* sub-path, after a transaction run ended without usable text, and after a
\* transaction run whose engine call failed (no credential, API error,
\* unparsable JSON); and no exception escapes the text stage.
C3_FailureCapturedOnRecord ==
    /\ manual.pc = "respond" /\ manual.commits = 1
         /\ (~manual.poppler_result.success \/ ~manual.ocr_result.success)
         => PersistedError
    /\ \A r \in DOMAIN txn :
          /\ txn[r].pc = "exit" /\ txn[r].doc # 0 /\ txn[r].engine_calls = 0
                => PersistedError
          /\ txn[r].pc = "exit" /\ txn[r].engine_calls = 1
                /\ ~txn[r].extraction_result.success
                => PersistedError
    /\ manual.pc # "raised"
    /\ \A d \in DOMAIN bg : bg[d].pc # "raised"

\* ---------------------------------------------------------------------- C4
\* C4 as stated: no transaction run starts for a document, and none reads a
\* document's row, while a text-extraction run for that document is in
\* progress.
C4_NeverDuringTextRun ==
    [][\A r \in DOMAIN txn' :
          /\ r \notin DOMAIN txn => ~RunsOn(manual', bg', txn'[r].trigger_doc)
          /\ (r \in DOMAIN txn /\ txn[r].pc = "query" /\ txn'[r].doc # 0)
                => ~RunsOn(manual', bg', txn'[r].doc)]_vars

\* C4 amended: every transaction run in flight was started for a document
\* whose text stage had already committed text_processing_completed, and any
\* text a run handed to the engine was read from a row committed by a
\* completed text-extraction run.
C4_StartsAfterCompletion ==
    \A r \in DOMAIN txn :
        /\ txn[r].trigger_doc \in DOMAIN documents =>
              documents[txn[r].trigger_doc].text_processing_completed
        /\ txn[r].text_to_extract # NoneText =>
              txn[r].document.text_processing_completed

\* C4 witness: a transaction run holds text of a document for which a manual
\* text-extraction run is in progress.
C4_Witness ==
    \E r \in DOMAIN txn :
        /\ txn[r].text_to_extract # NoneText
        /\ txn[r].doc = txn[r].trigger_doc
        /\ TextRunInProgress(txn[r].doc)

\* ---------------------------------------------------------------------- C5
\* C5 as stated: once a row is completed, no step changes any of its fields.
C5_FrozenAfterCompleted ==
    [][\A d \in DOMAIN documents \cap DOMAIN documents' :
          documents[d].text_processing_completed =>
              documents'[d] = documents[d]]_vars

\* C5 amended: once a row is completed it stays completed, and only the
\* commit of a text-extraction run for that document changes its fields.
C5_CompletedChangesOnlyByTextRun ==
    [][\A d \in DOMAIN documents \cap DOMAIN documents' :
          documents[d].text_processing_completed =>
              /\ documents'[d].text_processing_completed
              /\ documents'[d] # documents[d] => TextCommitStep(d)]_vars

\* C5 witness: the manual extract-text handler has committed on a row that an
\* earlier run had completed: the poppler text of the earlier run is still
\* stored while the poppler flag is now false.
C5_Witness ==
    \E d \in DOMAIN documents :
        /\ manual.doc = d
        /\ manual.pc = "respond"
        /\ documents[d].text_processing_completed
        /\ ~documents[d].poppler_extraction_success
        /\ documents[d].poppler_text # NoneText

\* ---------------------------------------------------------------------- C6
\* The commit of a text-extraction run with results pr and ocr left the row
\* new carrying everything both results determine.
WholeResults(new, pr, ocr) ==
    /\ new.text_processing_completed
    /\ new.poppler_extraction_success = pr.success
    /\ new.ocr_extraction_success = ocr.success
    /\ pr.success => /\ new.poppler_text = pr.text
                     /\ new.poppler_word_count = pr.word_count
                     /\ new.poppler_pages = pr.pages
    /\ ocr.success => /\ new.ocr_text = ocr.complete_text
                      /\ new.ocr_word_count = WordCount(ocr.complete_text)
                      /\ new.ocr_pages = ocr.total_pages

\* A run commits once: never before its last step, and once when it is over
\* (a background run whose row was deleted has nothing to commit).
CommitsOnce ==
    /\ InProgress(manual) => manual.commits = 0
    /\ manual.pc = "respond" => manual.commits = 1
    /\ \A d \in DOMAIN bg :
          /\ InProgress(bg[d]) => bg[d].commits = 0
          /\ bg[d].pc = "done" => bg[d].commits <= 1
          /\ bg[d].pc = "done" /\ d \in DOMAIN documents => bg[d].commits = 1

\* A row changes only in the commit step of a text run for that document.
RowsChangeAtCommitOnly ==
    \A d \in DOMAIN documents \cap DOMAIN documents' :
        documents'[d] # documents[d] => TextCommitStep(d)

\* The success-path commit writes both halves of the results at once, the
\* exception-path commit the error and the completed flag.
CommitIsWhole ==
    /\ manual.pc = "commit" /\ manual'.pc = "respond" =>
          WholeResults(documents'[manual.doc], manual.poppler_result,
                       manual.ocr_result)
    /\ manual.pc = "except" /\ manual'.pc = "respond" =>
          /\ documents'[manual.doc].text_processing_completed
          /\ documents'[manual.doc].text_processing_error # NoneStr
    /\ \A d \in DOMAIN bg \cap DOMAIN documents :
          /\ bg[d].pc = "commit" /\ bg'[d].pc = "done" =>
                WholeResults(documents'[d], bg[d].poppler_result, bg[d].ocr_result)
          /\ bg[d].pc = "except" /\ bg'[d].pc = "done" =>
                /\ documents'[d].text_processing_completed
                /\ documents'[d].text_processing_error # NoneStr

\* A step of a transaction run (its read, a save, its return).
TxnRunStep == \E r \in DOMAIN txn : r \notin DOMAIN txn' \/ txn'[r] # txn[r]

C7_PerDocumentIsolation ==
    /\ [](\A r \in DOMAIN txn : txn[r].doc # 0 => txn[r].doc = txn[r].trigger_doc)
    /\ [](\A i \in 1..Len(transactions) : \A d \in DOMAIN documents :
             documents[d].statement_id = transactions[i].statement_id =>
                 d = transactions[i].from_doc)
    /\ [][\A d \in DOMAIN documents \cap DOMAIN documents' :
             documents'[d] # documents[d] => TextCommitStep(d)]_vars

\* ---------------------------------------------------------------------- C8
InText(tok, text) == \E i \in 1..Len(text) : text[i] = tok

\* C8: in a returned process_pdf_with_ocr call that reached the page loop
\* with a credential, every rasterized page has an entry, total_pages is the
\* number of rasterized pages, and a page whose vision-API call failed is
\* recorded with success=false and an error, and neither its page delimiter
\* nor the API's error string is in complete_text.
C8_PageErrorIsolated ==
    (/\ call.fn = "process_pdf_with_ocr" /\ call.pc = "returned"
     /\ call.exists /\ call.images > 0 /\ call.api_key) =>
        LET res == call.ocr_result
        IN  /\ res.total_pages = call.images
            /\ DOMAIN res.pages = 1..call.images
            /\ res.calls = call.images
            /\ \A p \in 1..call.images :
                  call.outcomes[p] = "error" =>
                      /\ ~res.pages[p].success
                      /\ res.pages[p].error # ""
                      /\ ~InText(<<"page", p>>, res.complete_text)
                      /\ ~InText(<<"Error", 0>>, res.complete_text)

\* ---------------------------------------------------------------------- C9
NoCredentialResult(ocr) ==
    /\ ocr.calls = 0
    /\ \A p \in DOMAIN ocr.pages : ~ocr.pages[p].success
    /\ ~ocr.success

\* C9: without the credential, a text run's process_pdf_with_ocr call made no
\* vision-API call, recorded no page as successful and returned
\* success=false, and no row has its OCR success flag set.
C9_NoCredentialAllFailure ==
    ~env.api_key =>
        /\ manual.pc = "commit" => NoCredentialResult(manual.ocr_result)
        /\ \A d \in DOMAIN bg :
              bg[d].pc = "commit" => NoCredentialResult(bg[d].ocr_result)
        /\ \A d \in DOMAIN documents : ~documents[d].ocr_extraction_success

\* --------------------------------------------------------------------- C10
\* C10: a returned extract_text_from_pdf call did not raise, and for a
\* missing file and for every tool outcome but success the result has
\* success=false, an error reason, empty text and zero page and word counts.
C10_NeverRaises ==
    (call.fn = "extract_text_from_pdf" /\ call.pc = "returned") =>
        LET res == call.poppler_result
        IN  /\ ~res.raised
            /\ (~call.exists \/ call.tool # "ok") =>
                  /\ ~res.success
                  /\ res.error # ""
                  /\ res.text = <<>>
                  /\ res.pages = 0
                  /\ res.word_count = 0

\* --------------------------------------------------------------------- C11
\* C11: when extract_text_from_pdf or extract_text_by_pages has returned, no
\* temporary output file it created is left, whatever the tool did.
C11_TempFilesDeleted ==
    (call.fn \in {"extract_text_from_pdf", "extract_text_by_pages"}
     /\ call.pc = "returned") => call.temp_left = 0

\* --------------------------------------------------------------------- C12
\* C12: a returned extract_text_by_pages call on an existing file with the
\* tools installed has success=true and total_pages entries; a page whose
\* extraction exited nonzero or timed out holds the placeholder, and every
\* page whose extraction succeeded holds its text.
C12_PageFailureIsolated ==
    (/\ call.fn = "extract_text_by_pages" /\ call.pc = "returned"
     /\ call.exists /\ call.tool = "ok"
     /\ \A p \in 1..call.images : call.page_tools[p] # "unexpected") =>
        LET res == call.pages_result
        IN  /\ res.success
            /\ res.total_pages = call.images
            /\ DOMAIN res.pages = 1..call.images
            /\ \A p \in 1..call.images :
                  res.pages[p] = IF call.page_tools[p] = "ok"
                                 THEN PageTexts(1)[p] ELSE PagePlaceholder(p)

\* --------------------------------------------------------------------- C13
\* C13: a run of the transaction stage whose engine call received a body
\* that is not parseable JSON holds a result with success=false, an error, no
\* transactions and raw_response equal to the raw text received, and the run
\* ends without persisting a transaction.
C13_ParseFailureFailsBatch ==
    \A r \in DOMAIN txn :
        txn[r].received_json = "garbage" =>
            /\ ~txn[r].extraction_result.success
            /\ txn[r].extraction_result.error # ""
            /\ txn[r].extraction_result.transactions = <<>>
            /\ txn[r].extraction_result.raw_response = txn[r].received
            /\ txn[r].pc = "exit"
            /\ txn[r].saved = 0

\* C13 witness: a run has received such a body for a statement whose text
\* was available, and is about to return.
C13_Witness ==
    \E r \in DOMAIN txn :
        /\ txn[r].received_json = "garbage"
        /\ txn[r].received # NoneStr
        /\ txn[r].text_to_extract # NoneText
        /\ txn[r].pc = "exit"

\* --------------------------------------------------------------------- C14
\* C14: a returned extract_transactions call that got a response reports
\* success only if the body is a JSON object with a transactions array and a
\* confidence number.
C14_AcceptsOnlyWellFormed ==
    (/\ call.fn = "extract_transactions" /\ call.pc = "returned"
     /\ call.extraction_result.success) =>
        /\ call.body.json = "object"
        /\ call.body.transactions = "array"
        /\ call.body.has_confidence

\* --------------------------------------------------------------------- C15
\* The elements _process_transactions was given by a returned, successful
\* extract_transactions call.
ElementsOf(c) == IF c.body.transactions = "array" THEN c.body.items ELSE <<>>

EngineSucceeded(c) ==
    c.fn = "extract_transactions" /\ c.pc = "returned" /\ c.extraction_result.success

\* C15: the records are one per element, in the elements' order: the record
\* of an object element is completed and carries that element's line item,
\* whatever the other elements are; the record of an element whose
\* normalization raised has processing_completed=false, an error and the
\* raw model output.
C15_OneRecordPerElement ==
    EngineSucceeded(call) =>
        LET items == ElementsOf(call)
            recs == call.extraction_result.transactions
        IN  /\ Len(recs) = Len(items)
            /\ \A i \in 1..Len(items) :
                  IF items[i].kind = "dict"
                  THEN recs[i] =
                         [statement_id |-> 1,
                          description |-> <<"desc", items[i].data>>,
                          extraction_source |-> "llm",
                          llm_raw_response |-> call.body.raw,
                          processing_completed |-> TRUE,
                          processing_error |-> NoneStr]
                  ELSE /\ ~recs[i].processing_completed
                       /\ recs[i].processing_error # NoneStr
                       /\ recs[i].llm_raw_response = call.body.raw
                       /\ recs[i].statement_id = 1

\* C15 witness: a call returned for an array whose first element raised and
\* whose second element is an object.
C15_Witness ==
    /\ EngineSucceeded(call)
    /\ Len(ElementsOf(call)) = 2
    /\ ElementsOf(call)[1].kind = "nondict"
    /\ ElementsOf(call)[2].kind = "dict"
    /\ call.extraction_result.transactions[2].processing_completed

\* --------------------------------------------------------------------- C17
\* C17: every record of a successful extract_transactions result has
\* extraction_source "llm".
C17_AllRecordsTaggedLlm ==
    EngineSucceeded(call) =>
        \A i \in 1..Len(call.extraction_result.transactions) :
            call.extraction_result.transactions[i].extraction_source = "llm"

\* --------------------------------------------------------------------- C16
\* The step in which run r persists a transaction.
SaveStep(r) ==
    /\ r \in DOMAIN txn /\ r \in DOMAIN txn'
    /\ txn[r].pc = "save"
    /\ txn'[r].saved = txn[r].saved + 1

\* C16: every persisted transaction has an extraction_source that is not
\* null and is one of the model's tags, and the row a run persists carries
\* the tag of the path whose text the run handed to the engine; this holds
\* for the records of failed normalizations as well.
C16_ProvenanceAlwaysSet ==
    /\ [](\A i \in 1..Len(transactions) :
             /\ transactions[i].extraction_source # NoneStr
             /\ transactions[i].extraction_source \in {"poppler", "ocr", "llm"})
    /\ [][\A r \in DOMAIN txn :
             SaveStep(r) =>
                 LET row == transactions'[Len(transactions')]
                 IN  /\ row.extraction_source = txn[r].extraction_source
                     /\ row.extraction_source = "poppler" =>
                           txn[r].text_to_extract = txn[r].document.poppler_text
                     /\ row.extraction_source = "ocr" =>
                           txn[r].text_to_extract = txn[r].document.ocr_text]_vars

\* C16 witness: the record of a failed normalization is persisted, tagged
\* with the OCR path.
C16_Witness ==
    \E i \in 1..Len(transactions) :
        /\ ~transactions[i].processing_completed
        /\ transactions[i].processing_error # NoneStr
        /\ transactions[i].extraction_source = "ocr"

\* --------------------------------------------------------------------- C18
\* The step of one of the delete handlers: a request is served that starts
\* no run.
DeleteStep ==
    /\ triggers' = triggers + 1
    /\ txn' = txn /\ bg' = bg /\ manual' = manual

\* The table after the step is the table before it with rows appended.
Appended ==
    /\ Len(transactions') >= Len(transactions)
    /\ SubSeq(transactions', 1, Len(transactions)) = transactions

\* C18: outside the delete operations every step leaves the existing
\* transactions as they are and only appends, and no two stored transactions
\* of one statement are records of the same line item.
C18_AppendOnlyOncePerItem ==
    /\ [][~DeleteStep => Appended]_vars
    /\ [](\A i, j \in 1..Len(transactions) :
             (/\ i # j
              /\ transactions[i].statement_id = transactions[j].statement_id
              /\ transactions[i].description[1] = "desc")
             => transactions[i].description # transactions[j].description)

\* --------------------------------------------------------------------- C19
\* C19: under SpecLive, every uploaded document is eventually completed
\* (text_processing_completed=true), unless it has been deleted.
C19_EventuallyCompleted ==
    \A d \in DocIds :
        (d \in DOMAIN documents) ~>
            (d \notin DOMAIN documents \/ documents[d].text_processing_completed)

\* C19 witness: the background run of an upload has ended on the exception
\* path and the document is completed.
C19_Witness ==
    \E d \in DOMAIN documents :
        /\ bg[d].pc = "done"
        /\ manual.pc = "idle"
        /\ triggers = 1
        /\ documents[d].text_processing_error # NoneStr
        /\ documents[d].text_processing_completed

\* --------------------------------------------------------------------- C20
\* The run is past its extractor calls, the deterministic one having failed,
\* and process_pdf_with_ocr was called in it.
OcrAttemptedAfterFailure(run) ==
    (run.pc \in {"commit", "except"} /\ ~run.poppler_result.success) =>
        run.ocr_result # NoOcrResult

\* C20: in every text-extraction run in which the deterministic extractor
\* failed, OCR extraction is attempted before the run commits.
C20_OcrAlwaysAttempted ==
    /\ OcrAttemptedAfterFailure(manual)
    /\ \A d \in DOMAIN bg : OcrAttemptedAfterFailure(bg[d])

Sequential(run) ==
    /\ run.pc = "poppler" =>
          run.poppler_result = NoPopplerResult /\ run.ocr_result = NoOcrResult
    /\ run.pc = "ocr" =>
          /\ run.poppler_result # NoPopplerResult
          /\ ~run.poppler_result.raised
          /\ run.ocr_result = NoOcrResult
    /\ run.ocr_result # NoOcrResult =>
          run.poppler_result # NoPopplerResult /\ ~run.poppler_result.raised
    /\ run.pc = "commit" =>
          run.poppler_result # NoPopplerResult /\ run.ocr_result # NoOcrResult
    /\ run.pc = "except" =>
          run.poppler_result.raised /\ run.ocr_result = NoOcrResult

CalledOnce(a, b) ==
    /\ b.poppler_result \notin {a.poppler_result, NoPopplerResult} =>
          a.poppler_result = NoPopplerResult /\ a.pc = "poppler"
    /\ b.ocr_result \notin {a.ocr_result, NoOcrResult} =>
          a.ocr_result = NoOcrResult /\ a.pc = "ocr"
    /\ b.ocr_result.calls <= b.ocr_result.total_pages

\* C22: within one run the extraction tool, each page's vision call and the
\* LLM completion are attempted at most once, a run that has failed only
\* returns, and a run starts only where a request arrives or, for the
\* transaction stage of an upload, where its text stage ends.  (The handlers
\* count the requests in triggers.)
C22_NoAutomaticRetries ==
    /\ [](\A r \in DOMAIN txn :
             txn[r].engine_calls <= 1 /\ txn[r].llm_calls <= txn[r].engine_calls)
    /\ [][/\ CalledOnce(manual, manual')
          /\ \A d \in DOMAIN bg : CalledOnce(bg[d], bg'[d])
          /\ \A r \in DOMAIN txn :
                txn[r].pc = "exit" =>
                    r \notin DOMAIN txn' \/ txn'[r] = txn[r]
          /\ manual'.pc = "poppler" /\ manual.pc # "poppler" =>
                triggers' = triggers + 1
          /\ \A d \in DOMAIN bg' :
                bg'[d].pc = "poppler" /\ (d \in DOMAIN bg => bg[d].pc # "poppler")
                    => triggers' = triggers + 1 /\ d \notin DOMAIN bg
          /\ \A r \in DOMAIN txn' \ DOMAIN txn :
                \/ triggers' = triggers + 1
                \/ r[1] = "bg" /\ bg[r[2]].pc \in {"commit", "except"}
                              /\ bg'[r[2]].pc = "done"]_vars

\* C22 witness: a requested transaction run has ended in failure after one
\* engine call and one LLM call.
C22_Witness ==
    \E r \in DOMAIN txn :
        /\ txn[r].pc = "exit"
        /\ txn[r].origin = "manual"
        /\ txn[r].engine_calls = 1
        /\ txn[r].llm_calls = 1
        /\ ~txn[r].extraction_result.success

\* --------------------------------------------------------------------- C23
\* The row was extracted from a document that this user owns.
ExtractedFromOwn(user_id, row) ==
    /\ row.from_doc \in DOMAIN documents
    /\ documents[row.from_doc].user_id = user_id

\* C23: a read answered with rows hands the caller only rows extracted from
\* the caller's own documents, and a delete request removes only such rows,
\* whatever statement ids the other users' documents carry.
C23_OnlyOwnTransactions ==
    /\ [](call.fn \in {"get_transactions_by_statement", "get_transaction"} =>
             \A row \in call.response : ExtractedFromOwn(call.current_user_id, row))
    /\ [][/\ \A u \in Users, i \in 1..Len(transactions) :
                delete_transaction(u, i) => ExtractedFromOwn(u, transactions[i])
          /\ \A u \in Users, s \in 1..MaxDocs :
                delete_all_transactions(u, s) =>
                    \A i \in 1..Len(transactions) :
                        transactions[i].statement_id = s =>
                            ExtractedFromOwn(u, transactions[i])]_vars

\* --------------------------------------------------------------------- C24
\* C24: a statement text of more than 10,000 characters is embedded as its
\* first 10,000 characters followed by the truncation marker; a text of at
\* most 10,000 characters is embedded character for character, no marker.
C24_TruncatedAtLimit ==
    call.fn = "_create_extraction_prompt" /\ call.pc = "returned" =>
        LET text == call.arg
            e == SubSeq(call.result, 2, Len(call.result) - 1)
        IN  /\ Head(call.result) = PromptHead
            /\ call.result[Len(call.result)] = PromptTail
            /\ Len(text) > 10000 =>
                  /\ Len(e) = 10001
                  /\ \A i \in 1..10000 : e[i] = text[i]
                  /\ e[10001] = TruncationMarker
            /\ Len(text) <= 10000 =>
                  /\ Len(e) = Len(text)
                  /\ \A i \in 1..Len(text) : e[i] = text[i]

\* C24 witness: a text of 10,001 characters was embedded as its first 10,000
\* characters and the marker.
C24_Witness ==
    /\ call.fn = "_create_extraction_prompt"
    /\ call.pc = "returned"
    /\ Len(call.arg) = 10001
    /\ Len(call.result) = 10003

\* --------------------------------------------------------------------- C25
\* C25: the similarity of two texts is that of the same texts in the other
\* order, and it is 1 (overlap equal to the union) when both texts have the
\* same non-empty set of lowercase words.
C25_SymmetricAndReflexive ==
    call.fn = "similarity_score" /\ call.pc = "returned" =>
        LET a == call.arg[1]
            b == call.arg[2]
        IN  /\ call.result = similarity_score(b, a)
            /\ WordSet(a) = WordSet(b) /\ WordSet(a) # {} =>
                  /\ call.result.total_unique_words > 0
                  /\ call.result.overlap_words = call.result.total_unique_words

\* C25 witness: two texts that differ in case, order and length but have the
\* same words were scored.
C25_Witness ==
    /\ call.fn = "similarity_score"
    /\ call.pc = "returned"
    /\ call.arg[1] = <<"Total", "total">>
    /\ call.arg[2] = <<"total">>
    /\ call.result.overlap_words = 1

\* --------------------------------------------------------------------- C26
\* C26: _parse_date returns the first reading that succeeds in the order ISO
\* date, US slash, EU slash, ISO date-time: a slash date valid both ways is
\* read month-first, one valid only the EU way day-first; a value with no
\* valid reading, an empty value and a non-string value give None.
C26_FirstFormatWins ==
    call.fn = "_parse_date" /\ call.pc = "returned" =>
        LET v == call.arg
            r == call.result
            str == v.type = "str"
            IsoDate == str /\ v.form = "dash" /\ ValidDate(v.f1, v.f2, v.f3)
            UsDate == str /\ v.form = "slash" /\ ValidDate(v.f3, v.f1, v.f2)
            EuDate == str /\ v.form = "slash" /\ ValidDate(v.f3, v.f2, v.f1)
            IsoDateTime == /\ str /\ v.form = "dash_time"
                           /\ ValidDate(v.f1, v.f2, v.f3) /\ v.hh < 24
        IN  /\ IsoDate => r = DateTime(v.f1, v.f2, v.f3, 0)
            /\ UsDate => r.month = v.f1 /\ r.day = v.f2 /\ r.year = v.f3
            /\ EuDate /\ ~UsDate =>
                  r.day = v.f1 /\ r.month = v.f2 /\ r.year = v.f3
            /\ IsoDateTime => r = DateTime(v.f1, v.f2, v.f3, v.hh)
            /\ ~(IsoDate \/ UsDate \/ EuDate \/ IsoDateTime) => r = NoneDate

\* C26 witness: "02/04/2024", valid both ways, was read as February 4th.
C26_Witness ==
    /\ call.fn = "_parse_date"
    /\ call.pc = "returned"
    /\ call.arg = DateString("slash", 2, 4, 2024, 0)
    /\ call.result = DateTime(2024, 2, 4, 0)

\* --------------------------------------------------------------------- C27
\* C27: _parse_amount takes the currency symbols, thousands separators and
\* whitespace out of a string and returns the exact decimal of what is left,
\* negative for a negative input; a value that is no number after stripping
\* gives None.
C27_ExactDecimalOrNull ==
    call.fn = "_parse_amount" /\ call.pc = "returned" =>
        LET v == call.arg
            stripped == IF v.type = "str"
                        THEN SelectSeq(v.chars, LAMBDA c :
                                 c \notin {"$", "euro", "pound", ",", " "})
                        ELSE v.chars
            number == Decimal(stripped).kind = "finite"
        IN  IF number
            THEN /\ call.result = Decimal(stripped)
                 /\ call.result.negative = (stripped[1] = "-")
            ELSE call.result = NoneAmount

\* --------------------------------------------------------------------- C28
\* C28: a non-empty string without whitespace around it is lowercased and
\* mapped through the table ("gas" to "fuel", "grocery" to "groceries"), a
\* lowercased value that is no key coming back as it is; and normalizing the
\* result of either function once more gives that result again, for every
\* input.
C28_MappedAndIdempotent ==
    call.fn \in {"_normalize_category", "_normalize_transaction_type"}
    /\ call.pc = "returned" =>
        LET v == call.arg
            table == IF call.fn = "_normalize_category"
                     THEN category_mapping ELSE type_mapping
            again == IF call.fn = "_normalize_category"
                     THEN normalize_category(call.result)
                     ELSE normalize_transaction_type(call.result)
            lowered == Lower(v.word)
        IN  /\ v.type = "str" /\ ~v.pad /\ v.word # "" =>
                  /\ call.result.type = "str"
                  /\ lowered \in DOMAIN table => call.result.word = table[lowered]
                  /\ lowered \notin DOMAIN table => call.result.word = lowered
            /\ call.fn = "_normalize_category" /\ lowered = "gas" /\ ~v.pad =>
                  call.result.word = "fuel"
            /\ call.fn = "_normalize_category" /\ lowered = "grocery" /\ ~v.pad =>
                  call.result.word = "groceries"
            /\ again = call.result

C30_CompletedAndErrorMonotonic ==
    [][/\ \A d \in DOMAIN documents' \ DOMAIN documents :
             /\ ~documents'[d].text_processing_completed
             /\ documents'[d].text_processing_error = NoneStr
       /\ \A d \in DOMAIN documents \cap DOMAIN documents' :
             /\ documents[d].text_processing_completed =>
                   documents'[d].text_processing_completed
             /\ documents[d].text_processing_error # NoneStr =>
                   documents'[d].text_processing_error # NoneStr]_vars

\* C30 witness: the manual handler has committed a successful run on a row
\* that carries the error of another run.
C30_Witness ==
    /\ manual.pc = "respond"
    /\ manual.poppler_result.success
    /\ manual.doc \in DOMAIN documents
    /\ documents[manual.doc].poppler_extraction_success
    /\ documents[manual.doc].text_processing_completed
    /\ documents[manual.doc].text_processing_error # NoneStr

====
